---------------------------- MODULE Spec2Model ----------------------------
(***************************************************************************)
(* A model of zzh's host picker (src/cmd/zzh/terminal_windows.go): the     *)
(* config loader loadSSHHosts, the bubbletea model's Update handler, main, *)
(* and the two session launchers connectToSSHNative / connectToSSHViaZzh   *)
(* with their child process, output pumps and signal-forwarding goroutine. *)
(*                                                                         *)
(* Go strings are sequences of atoms (short TLA+ strings): "" is << >>,    *)
(* "a*" is <<"a","*">>, "~/k" is <<"~","/k">>; concatenation is \o.        *)
(* An optional value (a nil-able pointer) is a sequence of length 0 or 1.  *)
(***************************************************************************)
EXTENDS Integers, Sequences, FiniteSets, TLC

VARIABLES
    \* ---- flags (package-level vars, lines 55-60)
    zzhMode, zzhPanelID, zzhLogFile,
    \* ---- main and the config loader
    pc, cfg, items, exitCode, outcome, connectErr,
    \* ---- the bubbletea model (type model, lines 84-92) and its event loop
    m, list, quitPending, lastMsg,
    \* ---- the session launcher
    host, cmdArgs, lpc, fs, fileBefore, logFile, result,
    child, childCode, waitErr, emitted, pipes, pump, stdStreams,
    registered, sigChan, chanClosed, fwd, arrived, received, delivered,
    lateSignalCall

flagVars   == <<zzhMode, zzhPanelID, zzhLogFile>>
mainVars   == <<pc, cfg, items, exitCode, outcome, connectErr>>
uiVars     == <<m, list, quitPending, lastMsg>>
launchVars == <<host, cmdArgs, lpc, fs, fileBefore, logFile, result,
                child, childCode, waitErr, emitted, pipes, pump, stdStreams,
                registered, sigChan, chanClosed, fwd, arrived, received,
                delivered, lateSignalCall>>
vars       == <<flagVars, mainVars, uiVars, launchVars>>

-----------------------------------------------------------------------------
(* Bounds of the model *)

\* Host blocks in a config file (SpecLoad).
MaxHosts == 2
\* Chunks of output the child writes over its whole life.
MaxOut == 2
\* OS signals the parent receives during one launch.
MaxSignals == 2
\* Characters typed into the list's filter.
MaxFilter == 1

-----------------------------------------------------------------------------
(* Strings *)

EmptyStr == << >>

\* strings.Contains(s, c) for a one-atom c
Contains(s, c) == \E i \in 1..Len(s) : s[i] = c

\* strings.HasPrefix(s, c) for a one-atom c
HasPrefix(s, c) == Len(s) > 0 /\ s[1] = c

\* strings.Replace(s, "~", new, 1) where s is known to start with "~"
ReplaceFirstTilde(s, new) == new \o Tail(s)

\* whether sub occurs in s (the list filter's substring match)
IsSubstring(sub, s) ==
    \E i \in 0..(Len(s) - Len(sub)) :
        \A j \in 1..Len(sub) : s[i + j] = sub[j]

-----------------------------------------------------------------------------
(* The environment of loadSSHHosts: user.Current() and the parsed config *)

\* usr.HomeDir and usr.Username (user.Current(), line 207)
HomeDir  == <<"/home/me">>
Username == <<"me">>

\* Host patterns a config may hold: two literal aliases and patterns with the
\* two ssh_config wildcard characters, '*' and '?'.
Patterns == { <<"a">>, <<"b">>, <<"a", "*">>, <<"a", "?">> }

\* The pattern lists of one Host line: one or two patterns.
PatternLists ==
    { <<p>> : p \in Patterns } \cup { <<p, q>> : p \in Patterns, q \in Patterns }

\* The option sets of one Host block: a value, or "" for a key that is absent.
OptionSets ==
    { [HostName |-> EmptyStr, User |-> EmptyStr, Port |-> EmptyStr,
       IdentityFile |-> EmptyStr],
      [HostName |-> EmptyStr, User |-> EmptyStr, Port |-> <<"2222">>,
       IdentityFile |-> EmptyStr],
      [HostName |-> <<"h.example">>, User |-> <<"root">>, Port |-> <<"22">>,
       IdentityFile |-> <<"~", "/.ssh/custom_key">>] }

HostBlocks == [patterns : PatternLists, opts : OptionSets]

RECURSIVE SeqsUpTo(_, _)
\* all sequences over S of length at most n
SeqsUpTo(S, n) ==
    IF n = 0 THEN { << >> }
    ELSE LET shorter == SeqsUpTo(S, n - 1)
         IN  shorter \cup { Append(q, x) : q \in shorter, x \in S }

\* The parsed configs of SpecLoad: up to MaxHosts Host blocks.
Configs == SeqsUpTo(HostBlocks, MaxHosts)

\* ssh_config.Decode puts an implicit "Host *" block in front of the file's own.
ImplicitHost ==
    [patterns |-> << <<"*">> >>,
     opts |-> [HostName |-> EmptyStr, User |-> EmptyStr, Port |-> EmptyStr,
               IdentityFile |-> EmptyStr]]

cfgHosts(c) == <<ImplicitHost>> \o c

RECURSIVE GlobMatch(_, _)
\* ssh_config's Pattern match: '*' matches any run of characters, '?' one.
GlobMatch(p, s) ==
    IF p = << >> THEN s = << >>
    ELSE IF Head(p) = "*"
         THEN GlobMatch(Tail(p), s) \/ (s # << >> /\ GlobMatch(p, Tail(s)))
    ELSE IF Head(p) = "?"
         THEN s # << >> /\ GlobMatch(Tail(p), Tail(s))
    ELSE s # << >> /\ Head(s) = Head(p) /\ GlobMatch(Tail(p), Tail(s))

HostMatches(block, alias) ==
    \E i \in 1..Len(block.patterns) : GlobMatch(block.patterns[i], alias)

RECURSIVE GetFrom(_, _, _)
GetFrom(hs, alias, key) ==
    IF hs = << >> THEN EmptyStr
    ELSE IF HostMatches(Head(hs), alias) /\ Head(hs).opts[key] # EmptyStr
         THEN Head(hs).opts[key]
         ELSE GetFrom(Tail(hs), alias, key)

\* ssh_config.Get(alias, key): the first value of key among the blocks that
\* match alias, "" when none sets it.
Get(c, alias, key) == GetFrom(cfgHosts(c), alias, key)

-----------------------------------------------------------------------------
(* loadSSHHosts, lines 226-272 *)

\* line 231: strings.Contains(pattern.String(), "*")
SkipPattern(pattern) == Contains(pattern, "*")

\* lines 235-268: one SSHHost, each field its declared value or its default
ResolveHost(c, hostName) ==
    LET hostname     == Get(c, hostName, "HostName")
        user         == Get(c, hostName, "User")
        port         == Get(c, hostName, "Port")
        identityFile == Get(c, hostName, "IdentityFile")
    IN  [name         |-> hostName,
         hostname     |-> IF hostname = EmptyStr THEN hostName ELSE hostname,
         user         |-> IF user = EmptyStr THEN Username ELSE user,
         port         |-> IF port = EmptyStr THEN <<"22">> ELSE port,
         identityFile |->
             IF identityFile = EmptyStr
             THEN HomeDir \o <<"/.ssh/id_rsa">>
             ELSE IF HasPrefix(identityFile, "~")
                  THEN ReplaceFirstTilde(identityFile, HomeDir)
                  ELSE identityFile]

RECURSIVE PatternItems(_, _)
\* the inner loop, lines 229-269
PatternItems(c, ps) ==
    IF ps = << >> THEN << >>
    ELSE (IF SkipPattern(Head(ps)) THEN << >>
          ELSE << ResolveHost(c, Head(ps)) >>)
         \o PatternItems(c, Tail(ps))

RECURSIVE HostItems(_, _)
\* the outer loop, lines 228-270
HostItems(c, hs) ==
    IF hs = << >> THEN << >>
    ELSE PatternItems(c, Head(hs).patterns) \o HostItems(c, Tail(hs))

loadSSHHosts(c) == HostItems(c, cfgHosts(c))

-----------------------------------------------------------------------------
(* The child-process invocations the launchers build *)

\* An argument list that passes -p whatever the port is.
SshArgsPortAlways(h) ==
    << <<"-t">> >>
    \o (IF h.identityFile # EmptyStr THEN << <<"-i">>, h.identityFile >> ELSE << >>)
    \o << <<"-p">>, h.port >>
    \o << h.user \o <<"@">> \o h.hostname >>

\* connectToSSHNative, lines 296-314
SshArgs(h) ==
    << <<"-t">> >>
    \o (IF h.identityFile # EmptyStr THEN << <<"-i">>, h.identityFile >> ELSE << >>)
    \o (IF h.port # <<"22">> THEN << <<"-p">>, h.port >> ELSE << >>)
    \o << h.user \o <<"@">> \o h.hostname >>

\* connectToSSHViaZzh, lines 386-394
ZzhArgs(h, panelID) ==
    << <<"connect">>, h.name >>
    \o (IF panelID # EmptyStr THEN << <<"--panel-id">>, panelID >> ELSE << >>)

\* SSHHost values a launcher may be handed (SpecArgs).
HostRecords ==
    [name         : { <<"a">>, <<"b">> },
     hostname     : { <<"a">>, <<"h.example">> },
     user         : { <<"me">>, <<"root">> },
     port         : { EmptyStr, <<"22">>, <<"2222">> },
     identityFile : { EmptyStr, HomeDir \o <<"/.ssh/id_rsa">>,
                      HomeDir \o <<"/.ssh/custom_key">> }]

PanelIDs == { EmptyStr, <<"panel-1">> }

-----------------------------------------------------------------------------
(* The session launcher: connectToSSHNative (lines 276-364) and            *)
(* connectToSSHViaZzh (lines 367-444).  The two functions are the same     *)
(* statement for statement but for the start marker's text and the command *)
(* they build; zzhMode says which one main called.                         *)

\* What the log file holds: marker lines and chunks of the child's output.
OldBytes       == [kind |-> "old", n |-> 0]
StartMarker    == [kind |-> IF zzhMode THEN "start-via-zzh" ELSE "start", n |-> 0]
EndMarker      == [kind |-> "end", n |-> 0]
Chunk(s, k)    == [kind |-> s, n |-> k]

Streams == {"out", "err"}

\* Both pumps write to os.Stdout (as with a child started with 2>&1).
StdTargetShared(s) == "stdout"

\* lines 324-325 / 404-405: the stdout pump tees to os.Stdout, the stderr pump
\* to os.Stderr (and both to logFile)
StdTarget(s) == IF s = "out" THEN "stdout" ELSE "stderr"

StdNames == {"stdout", "stderr"}

NoFile         == [exists |-> FALSE, data |-> << >>]
FileOf(bytes)  == [exists |-> TRUE, data |-> bytes]

\* The child's exit statuses as ProcessState.ExitCode() reports them: -1 for
\* a child a signal terminated.
ExitCodes == {0, 7, -1}

\* make(chan os.Signal, 1), lines 334 and 414
SigChanCap == 1

NoResult  == << >>
NilError  == [err |-> "nil", code |-> 0]
Failed(kind, code) == [err |-> kind, code |-> code]

\* os.OpenFile(name, O_APPEND|O_CREATE|O_WRONLY): what an append-mode open
\* would leave in the file.
OpenAppend(f) == FileOf(f.data)

\* os.Create(logFileName), lines 286 and 375: O_RDWR|O_CREATE|O_TRUNC
CreateFile(f) == FileOf(<< >>)

\* A Wait that returns as soon as the process has exited (os.Process.Wait).
ProcessExitedOnly == child = "exited"

\* cmd.Wait(), lines 348 and 428: returns once the child has exited and the
\* goroutines copying its stdout and stderr have seen EOF.
WaitReady ==
    /\ child = "exited"
    /\ \A s \in Streams : pump[s].pc = "done"

\* the error cmd.Wait returns: an *ExitError for a nonzero status, else nil or
\* the first error of an output copy
WaitErrors(code) == IF code # 0 THEN {"ExitError"} ELSE {"nil", "CopyError"}

\* An error check that forgets the exit code.
ConnectResultAnyError(err, code) ==
    IF err # "nil" THEN Failed("exit", code) ELSE NilError

\* lines 358-363 and 438-443
ConnectResult(err, code) ==
    IF err # "nil" /\ code # 0 THEN Failed("exit", code) ELSE NilError

\* main, the flags and the UI model are untouched while a launcher runs
LaunchFrame == UNCHANGED <<flagVars, mainVars, uiVars>>

Launching == lpc \notin {"idle", "done", "killed"}
AfterWait == lpc \in {"stop", "close", "endMarker", "return", "done"}

\* lines 286-290 / 375-379
CreateLog ==
    /\ LaunchFrame
    /\ lpc = "create"
    /\ \/ /\ result' = <<Failed("createLog", 0)>>
          /\ lpc' = "done"
          /\ UNCHANGED <<fs, logFile>>
       \/ /\ fs' = CreateFile(fs)
          /\ logFile' = "open"
          /\ lpc' = "startMarker"
          /\ UNCHANGED result
    /\ UNCHANGED <<host, cmdArgs, fileBefore, child, childCode, waitErr, emitted,
                   pipes, pump, stdStreams, registered, sigChan, chanClosed, fwd,
                   arrived, received, delivered, lateSignalCall>>

\* lines 293-294 / 382-383
WriteStartMarker ==
    /\ LaunchFrame
    /\ lpc = "startMarker"
    /\ fs' = [fs EXCEPT !.data = Append(@, StartMarker)]
    /\ lpc' = "start"
    /\ UNCHANGED <<host, cmdArgs, fileBefore, logFile, result, child, childCode,
                   waitErr, emitted, pipes, pump, stdStreams, registered, sigChan,
                   chanClosed, fwd, arrived, received, delivered, lateSignalCall>>

\* lines 296-331 / 385-411: build the command, wire its streams, cmd.Start()
StartChild ==
    /\ LaunchFrame
    /\ lpc = "start"
    /\ cmdArgs' = IF zzhMode THEN ZzhArgs(host, zzhPanelID) ELSE SshArgs(host)
    /\ \/ /\ result' = <<Failed("start", 0)>>
          /\ logFile' = "closed"
          /\ lpc' = "done"
          /\ UNCHANGED <<child, pump>>
       \/ /\ child' = "running"
          /\ pump' = [s \in Streams |-> [pc |-> "read", chunk |-> 0]]
          /\ lpc' = "notify"
          /\ UNCHANGED <<result, logFile>>
    /\ UNCHANGED <<host, fs, fileBefore, childCode, waitErr, emitted, pipes,
                   stdStreams, registered, sigChan, chanClosed, fwd, arrived,
                   received, delivered, lateSignalCall>>

\* lines 334-335 / 414-415
Notify ==
    /\ LaunchFrame
    /\ lpc = "notify"
    /\ registered' = TRUE
    /\ lpc' = "go"
    /\ UNCHANGED <<host, cmdArgs, fs, fileBefore, logFile, result, child,
                   childCode, waitErr, emitted, pipes, pump, stdStreams, sigChan,
                   chanClosed, fwd, arrived, received, delivered, lateSignalCall>>

\* lines 338-345 / 418-425: the go statement
GoForwarder ==
    /\ LaunchFrame
    /\ lpc = "go"
    /\ fwd' = [pc |-> "recv", sig |-> 0]
    /\ lpc' = "wait"
    /\ UNCHANGED <<host, cmdArgs, fs, fileBefore, logFile, result, child,
                   childCode, waitErr, emitted, pipes, pump, stdStreams,
                   registered, sigChan, chanClosed, arrived, received, delivered,
                   lateSignalCall>>

\* line 348 / 428
Wait ==
    /\ LaunchFrame
    /\ lpc = "wait"
    /\ WaitReady
    /\ waitErr' \in WaitErrors(childCode)
    /\ lpc' = "stop"
    /\ UNCHANGED <<host, cmdArgs, fs, fileBefore, logFile, result, child,
                   childCode, emitted, pipes, pump, stdStreams, registered,
                   sigChan, chanClosed, fwd, arrived, received, delivered,
                   lateSignalCall>>

\* line 351 / 431
StopNotify ==
    /\ LaunchFrame
    /\ lpc = "stop"
    /\ registered' = FALSE
    /\ lpc' = "close"
    /\ UNCHANGED <<host, cmdArgs, fs, fileBefore, logFile, result, child,
                   childCode, waitErr, emitted, pipes, pump, stdStreams, sigChan,
                   chanClosed, fwd, arrived, received, delivered, lateSignalCall>>

\* line 352 / 432
CloseChan ==
    /\ LaunchFrame
    /\ lpc = "close"
    /\ chanClosed' = TRUE
    /\ lpc' = "endMarker"
    /\ UNCHANGED <<host, cmdArgs, fs, fileBefore, logFile, result, child,
                   childCode, waitErr, emitted, pipes, pump, stdStreams,
                   registered, sigChan, fwd, arrived, received, delivered,
                   lateSignalCall>>

\* lines 355-356 / 435-436
WriteEndMarker ==
    /\ LaunchFrame
    /\ lpc = "endMarker"
    /\ fs' = [fs EXCEPT !.data = Append(@, EndMarker)]
    /\ lpc' = "return"
    /\ UNCHANGED <<host, cmdArgs, fileBefore, logFile, result, child, childCode,
                   waitErr, emitted, pipes, pump, stdStreams, registered, sigChan,
                   chanClosed, fwd, arrived, received, delivered, lateSignalCall>>

\* lines 358-363 / 438-443, then the deferred logFile.Close()
Return ==
    /\ LaunchFrame
    /\ lpc = "return"
    /\ result' = <<ConnectResult(waitErr, childCode)>>
    /\ logFile' = "closed"
    /\ lpc' = "done"
    /\ UNCHANGED <<host, cmdArgs, fs, fileBefore, child, childCode, waitErr,
                   emitted, pipes, pump, stdStreams, registered, sigChan,
                   chanClosed, fwd, arrived, received, delivered, lateSignalCall>>

-----------------------------------------------------------------------------
(* The child process (ssh or zzh), an opaque OS process *)

\* the child writes one chunk to its stdout or stderr pipe
ChildWrite(s) ==
    /\ LaunchFrame
    /\ lpc # "killed"
    /\ child = "running"
    /\ emitted < MaxOut
    /\ emitted' = emitted + 1
    /\ pipes' = [pipes EXCEPT ![s] = Append(@, emitted + 1)]
    /\ UNCHANGED <<host, cmdArgs, lpc, fs, fileBefore, logFile, result, child,
                   childCode, waitErr, pump, stdStreams, registered, sigChan,
                   chanClosed, fwd, arrived, received, delivered, lateSignalCall>>

\* the child ends, of its own accord or after a signal, with status c
ChildExit(c) ==
    /\ LaunchFrame
    /\ lpc # "killed"
    /\ child = "running"
    /\ child' = "exited"
    /\ childCode' = c
    /\ UNCHANGED <<host, cmdArgs, lpc, fs, fileBefore, logFile, result, waitErr,
                   emitted, pipes, pump, stdStreams, registered, sigChan,
                   chanClosed, fwd, arrived, received, delivered, lateSignalCall>>

-----------------------------------------------------------------------------
(* The output pumps: cmd.Stdout / cmd.Stderr are io.MultiWriter values,    *)
(* lines 324-325 / 404-405, so cmd.Start runs one copying goroutine per    *)
(* stream; each write goes to the OS stream first and then to logFile.     *)

\* the copy loop reads the next chunk from the child's pipe
PumpRead(s) ==
    /\ LaunchFrame
    /\ lpc # "killed"
    /\ pump[s].pc = "read"
    /\ pipes[s] # << >>
    /\ pump' = [pump EXCEPT ![s] = [pc |-> "teeStd", chunk |-> Head(pipes[s])]]
    /\ pipes' = [pipes EXCEPT ![s] = Tail(@)]
    /\ UNCHANGED <<host, cmdArgs, lpc, fs, fileBefore, logFile, result, child,
                   childCode, waitErr, emitted, stdStreams, registered, sigChan,
                   chanClosed, fwd, arrived, received, delivered, lateSignalCall>>

\* the pipe is drained and the child has closed it: the copy ends
PumpEOF(s) ==
    /\ LaunchFrame
    /\ lpc # "killed"
    /\ pump[s].pc = "read"
    /\ pipes[s] = << >>
    /\ child = "exited"
    /\ pump' = [pump EXCEPT ![s] = [pc |-> "done", chunk |-> 0]]
    /\ UNCHANGED <<host, cmdArgs, lpc, fs, fileBefore, logFile, result, child,
                   childCode, waitErr, emitted, pipes, stdStreams, registered,
                   sigChan, chanClosed, fwd, arrived, received, delivered,
                   lateSignalCall>>

\* MultiWriter's first writer: os.Stdout (os.Stderr)
PumpWriteStd(s) ==
    /\ LaunchFrame
    /\ lpc # "killed"
    /\ pump[s].pc = "teeStd"
    /\ stdStreams' = [stdStreams EXCEPT
                          ![StdTarget(s)] = Append(@, Chunk(s, pump[s].chunk))]
    /\ pump' = [pump EXCEPT ![s].pc = "teeLog"]
    /\ UNCHANGED <<host, cmdArgs, lpc, fs, fileBefore, logFile, result, child,
                   childCode, waitErr, emitted, pipes, registered, sigChan,
                   chanClosed, fwd, arrived, received, delivered, lateSignalCall>>

\* MultiWriter's second writer: logFile.  A write to a closed file fails,
\* which ends the copy.
PumpWriteLog(s) ==
    /\ LaunchFrame
    /\ lpc # "killed"
    /\ pump[s].pc = "teeLog"
    /\ IF logFile = "open"
       THEN /\ fs' = [fs EXCEPT !.data = Append(@, Chunk(s, pump[s].chunk))]
            /\ pump' = [pump EXCEPT ![s] = [pc |-> "read", chunk |-> 0]]
       ELSE /\ pump' = [pump EXCEPT ![s] = [pc |-> "done", chunk |-> 0]]
            /\ UNCHANGED fs
    /\ UNCHANGED <<host, cmdArgs, lpc, fileBefore, logFile, result, child,
                   childCode, waitErr, emitted, pipes, stdStreams, registered,
                   sigChan, chanClosed, fwd, arrived, received, delivered,
                   lateSignalCall>>

-----------------------------------------------------------------------------
(* OS signals and the forwarding goroutine *)

\* SIGINT, SIGTERM or SIGQUIT reaches the parent during the launch.  While
\* signal.Notify is in force the runtime sends it on sigChan without blocking
\* (a full channel loses it); otherwise the signal's default action ends the
\* parent process.
SignalArrives ==
    /\ LaunchFrame
    /\ Launching
    /\ arrived < MaxSignals
    /\ arrived' = arrived + 1
    /\ IF registered
       THEN /\ sigChan' = IF Len(sigChan) < SigChanCap
                          THEN Append(sigChan, arrived + 1)
                          ELSE sigChan
            /\ received' = IF child = "running"
                           THEN received \cup {arrived + 1}
                           ELSE received
            /\ UNCHANGED lpc
       ELSE /\ lpc' = "killed"
            /\ UNCHANGED <<sigChan, received>>
    /\ UNCHANGED <<host, cmdArgs, fs, fileBefore, logFile, result, child,
                   childCode, waitErr, emitted, pipes, pump, stdStreams,
                   registered, chanClosed, fwd, delivered, lateSignalCall>>

\* line 339 / 419: for sig := range sigChan, a value received
FwdRecv ==
    /\ LaunchFrame
    /\ lpc # "killed"
    /\ fwd.pc = "recv"
    /\ sigChan # << >>
    /\ fwd' = [pc |-> "signal", sig |-> Head(sigChan)]
    /\ sigChan' = Tail(sigChan)
    /\ UNCHANGED <<host, cmdArgs, lpc, fs, fileBefore, logFile, result, child,
                   childCode, waitErr, emitted, pipes, pump, stdStreams,
                   registered, chanClosed, arrived, received, delivered,
                   lateSignalCall>>

\* line 339 / 419: the channel is closed and empty, the loop ends
FwdEnd ==
    /\ LaunchFrame
    /\ lpc # "killed"
    /\ fwd.pc = "recv"
    /\ sigChan = << >>
    /\ chanClosed
    /\ fwd' = [pc |-> "done", sig |-> 0]
    /\ UNCHANGED <<host, cmdArgs, lpc, fs, fileBefore, logFile, result, child,
                   childCode, waitErr, emitted, pipes, pump, stdStreams,
                   registered, sigChan, chanClosed, arrived, received, delivered,
                   lateSignalCall>>

\* lines 341-343 / 421-423: cmd.Process is non-nil once cmd.Start succeeded,
\* so the signal call is always made; it reaches the child only while the
\* child is alive (its error is discarded).
FwdSignal ==
    /\ LaunchFrame
    /\ lpc # "killed"
    /\ fwd.pc = "signal"
    /\ delivered' = IF child = "running" THEN Append(delivered, fwd.sig)
                    ELSE delivered
    /\ lateSignalCall' = (lateSignalCall \/ AfterWait)
    /\ fwd' = [pc |-> "recv", sig |-> 0]
    /\ UNCHANGED <<host, cmdArgs, lpc, fs, fileBefore, logFile, result, child,
                   childCode, waitErr, emitted, pipes, pump, stdStreams,
                   registered, sigChan, chanClosed, arrived, received>>

LaunchNext ==
    \/ CreateLog \/ WriteStartMarker \/ StartChild \/ Notify \/ GoForwarder
    \/ Wait \/ StopNotify \/ CloseChan \/ WriteEndMarker \/ Return
    \/ \E s \in Streams : ChildWrite(s)
    \/ \E c \in ExitCodes : ChildExit(c)
    \/ \E s \in Streams : PumpRead(s)
    \/ \E s \in Streams : PumpEOF(s)
    \/ \E s \in Streams : PumpWriteStd(s)
    \/ \E s \in Streams : PumpWriteLog(s)
    \/ SignalArrives \/ FwdRecv \/ FwdEnd \/ FwdSignal

\* The launcher's variables before (or without) a call of a launcher.
LaunchIdle(h) ==
    /\ host = h
    /\ cmdArgs = << >>
    /\ lpc = "idle"
    /\ logFile = "nil"
    /\ result = NoResult
    /\ child = "none"
    /\ childCode = 0
    /\ waitErr = "nil"
    /\ emitted = 0
    /\ pipes = [s \in Streams |-> << >>]
    /\ pump = [s \in Streams |-> [pc |-> "none", chunk |-> 0]]
    /\ stdStreams = [t \in StdNames |-> << >>]
    /\ registered = FALSE
    /\ sigChan = << >>
    /\ chanClosed = FALSE
    /\ fwd = [pc |-> "none", sig |-> 0]
    /\ arrived = 0
    /\ received = {}
    /\ delivered = << >>
    /\ lateSignalCall = FALSE

-----------------------------------------------------------------------------
(* The bubbletea model: type model (lines 84-92) and model.Update          *)
(* (lines 105-157).  list is the bubbles list.Model the model embeds.      *)

Nil == << >>
Some(x) == <<x>>

KeyNames == {"ctrl+c", "q", "enter", "up", "down", "/", "a", "b", "esc"}
FilterChars == {"a", "b"}

WindowSizes == { <<80, 24>>, <<40, 12>> }

KeyMsg(k)           == [type |-> "key", key |-> k, width |-> 0, height |-> 0]
TickMsg             == [type |-> "tick", key |-> "", width |-> 0, height |-> 0]
ErrorMsg            == [type |-> "error", key |-> "", width |-> 0, height |-> 0]
WindowSizeMsg(w, h) == [type |-> "size", key |-> "", width |-> w, height |-> h]
NoMsg               == [type |-> "none", key |-> "", width |-> 0, height |-> 0]

Msgs ==
    { KeyMsg(k) : k \in KeyNames } \cup { TickMsg, ErrorMsg }
    \cup { WindowSizeMsg(sz[1], sz[2]) : sz \in WindowSizes }

\* listMargins(), lines 201-203
listMargins == [top |-> 1, right |-> 2, bottom |-> 1, left |-> 2]

\* list.New(items, delegate, 80, 20), line 507
NewList ==
    [filterState |-> "unfiltered", filterValue |-> EmptyStr, cursor |-> 0,
     width |-> 80, height |-> 20]

\* model{list: l, spinner: s}, lines 526-529
NewModel ==
    [selectedHost |-> Nil, err |-> "nil", connecting |-> FALSE,
     width |-> 0, height |-> 0, spinner |-> 0]

\* the items the list shows: all of them, or those whose FilterValue (the
\* name, line 81) contains the filter text
VisibleItems(its, l) ==
    IF l.filterValue = EmptyStr THEN its
    ELSE SelectSeq(its, LAMBDA h : IsSubstring(l.filterValue, h.name))

\* list.SelectedItem(): the highlighted item, nil when nothing is visible
SelectedItem(its, l) ==
    LET vis == VisibleItems(its, l)
    IN  IF l.cursor < Len(vis) THEN Some(vis[l.cursor + 1]) ELSE Nil

\* list.Update(msg), line 155: cursor movement and the filter input
ListUpdate(its, l, msg) ==
    IF msg.type # "key" THEN l
    ELSE IF l.filterState = "filtering"
    THEN CASE msg.key = "esc" ->
                [l EXCEPT !.filterState = "unfiltered", !.filterValue = EmptyStr,
                          !.cursor = 0]
           [] msg.key = "enter" ->
                [l EXCEPT !.filterState =
                              IF l.filterValue = EmptyStr THEN "unfiltered"
                              ELSE "applied"]
           [] msg.key \in FilterChars /\ Len(l.filterValue) < MaxFilter ->
                [l EXCEPT !.filterValue = Append(@, msg.key), !.cursor = 0]
           [] OTHER -> l
    ELSE CASE msg.key = "up" ->
                [l EXCEPT !.cursor = IF @ > 0 THEN @ - 1 ELSE @]
           [] msg.key = "down" ->
                [l EXCEPT !.cursor =
                     IF @ + 1 < Len(VisibleItems(its, l)) THEN @ + 1 ELSE @]
           [] msg.key = "/" ->
                [l EXCEPT !.filterState = "filtering", !.filterValue = EmptyStr,
                          !.cursor = 0]
           [] msg.key = "esc" /\ l.filterState = "applied" ->
                [l EXCEPT !.filterState = "unfiltered", !.filterValue = EmptyStr,
                          !.cursor = 0]
           [] OTHER -> l

\* list.SetSize, lines 147-150
SetSize(l, w, h) == [l EXCEPT !.width = w, !.height = h]

\* An activation test without the connecting guard.
CanActivateUnguarded(its, mm, l) == SelectedItem(its, l) # Nil

\* line 114: m.list.SelectedItem() != nil && !m.connecting
CanActivate(its, mm, l) == SelectedItem(its, l) # Nil /\ ~mm.connecting

\* model.Update, lines 105-157: the new model, the new list, and whether the
\* returned command is tea.Quit
Update(its, mm, l, msg) ==
    CASE msg.type = "key" /\ msg.key \in {"ctrl+c", "q"} ->
            [m |-> mm, list |-> l, quit |-> TRUE]
      [] msg.type = "key" /\ msg.key = "enter" /\ CanActivate(its, mm, l) ->
            [m |-> [mm EXCEPT !.selectedHost = SelectedItem(its, l),
                              !.connecting = TRUE],
             list |-> l, quit |-> TRUE]
      [] msg.type = "tick" /\ mm.connecting ->
            [m |-> [mm EXCEPT !.spinner = 1 - @], list |-> l, quit |-> FALSE]
      [] msg.type = "error" ->
            [m |-> [mm EXCEPT !.connecting = FALSE, !.err = "error"],
             list |-> l, quit |-> FALSE]
      [] msg.type = "size" ->
            [m |-> [mm EXCEPT !.width = msg.width, !.height = msg.height],
             list |-> ListUpdate(its,
                         SetSize(l, msg.width - listMargins.left - listMargins.right,
                                    msg.height - listMargins.top - listMargins.bottom),
                         msg),
             quit |-> FALSE]
      [] OTHER ->
            [m |-> mm, list |-> ListUpdate(its, l, msg), quit |-> FALSE]

-----------------------------------------------------------------------------
(* main, lines 464-564 *)

DefaultHost ==
    [name |-> <<"a">>, hostname |-> <<"a">>, user |-> Username,
     port |-> <<"22">>, identityFile |-> HomeDir \o <<"/.ssh/id_rsa">>]

NoOpts ==
    [HostName |-> EmptyStr, User |-> EmptyStr, Port |-> EmptyStr,
     IdentityFile |-> EmptyStr]

\* The config files of the main program's runs: an empty one, one host, and
\* two blocks with a wildcard pattern between two aliases.
UIConfigs ==
    { << >>,
      << [patterns |-> << <<"a">> >>, opts |-> NoOpts] >>,
      << [patterns |-> << <<"a">>, <<"a", "*">> >>, opts |-> NoOpts],
         [patterns |-> << <<"b">> >>,
          opts |-> [NoOpts EXCEPT !.Port = <<"2222">>]] >> }

\* What a launcher can return to main: the three error returns and nil.
LaunchOutcomes ==
    { Failed("createLog", 0), Failed("start", 0) }
    \cup { ConnectResult(e, c) : e \in {"nil", "ExitError", "CopyError"},
                                 c \in ExitCodes }

Exit(code, how) ==
    /\ pc' = "exited"
    /\ exitCode' = <<code>>
    /\ outcome' = how

\* lines 469-474
SetupLogging ==
    /\ pc = "setupLogging"
    /\ \/ Exit(1, "loggingError")
       \/ /\ pc' = "load"
          /\ UNCHANGED <<exitCode, outcome>>
    /\ UNCHANGED <<cfg, items, connectErr, flagVars, uiVars, launchVars>>

\* lines 477-481, with loadSSHHosts (lines 206-273) and its three error returns
LoadHosts ==
    /\ pc = "load"
    /\ \/ /\ Exit(1, "loadError")
          /\ UNCHANGED items
       \/ /\ items' = loadSSHHosts(cfg)
          /\ pc' = "ui"
          /\ UNCHANGED <<exitCode, outcome>>
    /\ UNCHANGED <<cfg, connectErr, flagVars, uiVars, launchVars>>

\* one message handled by the program's event loop (p.Run, line 533)
UIEvent(msg) ==
    /\ pc = "ui"
    /\ LET r == Update(items, m, list, msg)
       IN  /\ m' = r.m
           /\ list' = r.list
           /\ quitPending' = (quitPending \/ r.quit)
    /\ lastMsg' = msg
    /\ UNCHANGED <<mainVars, flagVars, launchVars>>

\* the tea.Quit command's message arrives: p.Run returns the model, lines
\* 533-541
QuitDelivered ==
    /\ pc = "ui"
    /\ quitPending
    /\ IF m.selectedHost # Nil
       THEN /\ pc' = "connect"
            /\ UNCHANGED <<exitCode, outcome>>
       ELSE Exit(0, "cleanQuit")
    /\ UNCHANGED <<cfg, items, connectErr, flagVars, uiVars, launchVars>>

\* p.Run returns an error, lines 534-537
RunFails ==
    /\ pc = "ui"
    /\ Exit(1, "runError")
    /\ UNCHANGED <<cfg, items, connectErr, flagVars, uiVars, launchVars>>

\* lines 543-561: the launcher runs to its return, then main exits
Connect ==
    /\ pc = "connect"
    /\ \E r \in LaunchOutcomes :
          /\ connectErr' = r
          /\ result' = <<r>>
          /\ IF r # NilError THEN Exit(1, "launchError") ELSE Exit(0, "completed")
    /\ host' = m.selectedHost[1]
    /\ lpc' = "done"
    /\ UNCHANGED <<cfg, items, flagVars, uiVars, cmdArgs, fs, fileBefore, logFile,
                   child, childCode, waitErr, emitted, pipes, pump, stdStreams,
                   registered, sigChan, chanClosed, fwd, arrived, received,
                   delivered, lateSignalCall>>

MainIdle(c) ==
    /\ cfg = c
    /\ items = << >>
    /\ exitCode = << >>
    /\ outcome = "running"
    /\ connectErr = NilError

UIIdle ==
    /\ m = NewModel
    /\ list = NewList
    /\ quitPending = FALSE
    /\ lastMsg = NoMsg

Init ==
    /\ zzhMode \in BOOLEAN
    /\ zzhPanelID = EmptyStr
    /\ zzhLogFile = EmptyStr
    /\ pc = "setupLogging"
    /\ \E c \in UIConfigs : MainIdle(c)
    /\ UIIdle
    /\ LaunchIdle(DefaultHost)
    /\ fs = NoFile
    /\ fileBefore = NoFile

Next ==
    \/ SetupLogging
    \/ LoadHosts
    \/ \E msg \in Msgs : UIEvent(msg)
    \/ QuitDelivered
    \/ RunFails
    \/ Connect

\* The whole program, with the launcher as one step of main.
Spec == Init /\ [][Next]_vars

-----------------------------------------------------------------------------
(* loadSSHHosts on every config within the bounds *)

InitLoad ==
    /\ zzhMode = FALSE
    /\ zzhPanelID = EmptyStr
    /\ zzhLogFile = EmptyStr
    /\ pc = "load"
    /\ \E c \in Configs : MainIdle(c)
    /\ UIIdle
    /\ LaunchIdle(DefaultHost)
    /\ fs = NoFile
    /\ fileBefore = NoFile

NextLoad == LoadHosts

SpecLoad == InitLoad /\ [][NextLoad]_vars

-----------------------------------------------------------------------------
(* The launchers' argument lists on every host record within the bounds *)

\* connectToSSHNative's command, lines 296-317
BuildNativeArgs ==
    /\ lpc = "args"
    /\ ~zzhMode
    /\ cmdArgs' = SshArgs(host)
    /\ lpc' = "built"
    /\ UNCHANGED <<flagVars, mainVars, uiVars, host, fs, fileBefore, logFile,
                   result, child, childCode, waitErr, emitted, pipes, pump,
                   stdStreams, registered, sigChan, chanClosed, fwd, arrived,
                   received, delivered, lateSignalCall>>

\* connectToSSHViaZzh's command, lines 385-397
BuildZzhArgs ==
    /\ lpc = "args"
    /\ zzhMode
    /\ cmdArgs' = ZzhArgs(host, zzhPanelID)
    /\ lpc' = "built"
    /\ UNCHANGED <<flagVars, mainVars, uiVars, host, fs, fileBefore, logFile,
                   result, child, childCode, waitErr, emitted, pipes, pump,
                   stdStreams, registered, sigChan, chanClosed, fwd, arrived,
                   received, delivered, lateSignalCall>>

InitArgs ==
    /\ zzhMode \in BOOLEAN
    /\ zzhPanelID \in PanelIDs
    /\ zzhLogFile = EmptyStr
    /\ pc = "connect"
    /\ MainIdle(<< >>)
    /\ UIIdle
    /\ \E h \in HostRecords :
          /\ host = h
          /\ cmdArgs = << >>
          /\ lpc = "args"
          /\ logFile = "nil"
          /\ result = NoResult
          /\ child = "none"
          /\ childCode = 0
          /\ waitErr = "nil"
          /\ emitted = 0
          /\ pipes = [s \in Streams |-> << >>]
          /\ pump = [s \in Streams |-> [pc |-> "none", chunk |-> 0]]
          /\ stdStreams = [t \in StdNames |-> << >>]
          /\ registered = FALSE
          /\ sigChan = << >>
          /\ chanClosed = FALSE
          /\ fwd = [pc |-> "none", sig |-> 0]
          /\ arrived = 0
          /\ received = {}
          /\ delivered = << >>
          /\ lateSignalCall = FALSE
    /\ fs = NoFile
    /\ fileBefore = NoFile

NextArgs == BuildNativeArgs \/ BuildZzhArgs

SpecArgs == InitArgs /\ [][NextArgs]_vars

-----------------------------------------------------------------------------
(* One call of a launcher, step by step, with its child and goroutines *)

\* --log-file values: none (a generated name) or a caller-supplied path
LogFileFlags == { EmptyStr, <<"session.log">> }

\* what the log path names before the launch: nothing, or an earlier log
FilesBefore == { NoFile, FileOf(<<OldBytes>>) }

InitLaunch ==
    /\ zzhMode \in BOOLEAN
    /\ zzhPanelID = EmptyStr
    /\ zzhLogFile \in LogFileFlags
    /\ pc = "connect"
    /\ MainIdle(<< >>)
    /\ UIIdle
    /\ host = DefaultHost
    /\ cmdArgs = << >>
    /\ lpc = "create"
    /\ logFile = "nil"
    /\ result = NoResult
    /\ child = "none"
    /\ childCode = 0
    /\ waitErr = "nil"
    /\ emitted = 0
    /\ pipes = [s \in Streams |-> << >>]
    /\ pump = [s \in Streams |-> [pc |-> "none", chunk |-> 0]]
    /\ stdStreams = [t \in StdNames |-> << >>]
    /\ registered = FALSE
    /\ sigChan = << >>
    /\ chanClosed = FALSE
    /\ fwd = [pc |-> "none", sig |-> 0]
    /\ arrived = 0
    /\ received = {}
    /\ delivered = << >>
    /\ lateSignalCall = FALSE
    /\ fs \in FilesBefore
    /\ fileBefore = fs

SpecLaunch == InitLaunch /\ [][LaunchNext]_vars

-----------------------------------------------------------------------------
(* Properties of model.Update and main (Spec) *)

\* the events C1 names besides activate: cursor movement, filter keystrokes,
\* resize and spinner tick
C1_PassiveMsgs ==
    { KeyMsg(k) : k \in {"up", "down", "/", "a", "b", "esc"} }
    \cup { TickMsg } \cup { WindowSizeMsg(sz[1], sz[2]) : sz \in WindowSizes }

C1_Kept == m'.selectedHost = m.selectedHost /\ m'.connecting = m.connecting

\* C1: in the event loop, connecting becomes true and selectedHost changes
\* only in a step that handles an enter key while an item is highlighted and
\* connecting is false; that step sets selectedHost to the highlighted item;
\* an enter key handled while connecting is true changes neither field; and
\* cursor movement, filter keystrokes, resize and spinner tick change neither.
C1_ConnectingOnlyByActivate ==
    [][ (pc = "ui" /\ pc' = "ui") =>
          LET msg      == lastMsg'
              activate == /\ msg = KeyMsg("enter")
                          /\ SelectedItem(items, list) # Nil
                          /\ ~m.connecting
          IN  /\ (~m.connecting /\ m'.connecting) => activate
              /\ (m'.selectedHost # m.selectedHost) => activate
              /\ activate => /\ m'.connecting
                             /\ m'.selectedHost = SelectedItem(items, list)
              /\ (msg = KeyMsg("enter") /\ m.connecting) => C1_Kept
              /\ (msg \in C1_PassiveMsgs) => C1_Kept
      ]_vars

\* C1's case: a host was activated, the cursor then moved to another host, and
\* a second enter was handled and ignored.
C1_Witness ==
    /\ pc = "ui"
    /\ m.connecting
    /\ lastMsg = KeyMsg("enter")
    /\ SelectedItem(items, list) # Nil
    /\ SelectedItem(items, list) # m.selectedHost

-----------------------------------------------------------------------------
(* Properties of loadSSHHosts (SpecLoad) *)

RECURSIVE C7_AllPatterns(_)
\* every pattern occurrence of a config, in file order
C7_AllPatterns(c) ==
    IF c = << >> THEN << >>
    ELSE Head(c).patterns \o C7_AllPatterns(Tail(c))

\* the ssh_config wildcard characters
C7_HasWildcard(p) == Contains(p, "*") \/ Contains(p, "?")

\* C7: after a successful load the items are, in file order, exactly one
\* record per occurrence of a pattern without a wildcard character, and none
\* for a pattern with one.
C7_OneRecordPerLiteralPattern ==
    pc = "ui" =>
        [i \in 1..Len(items) |-> items[i].name]
            = SelectSeq(C7_AllPatterns(cfg), LAMBDA p : ~C7_HasWildcard(p))

-----------------------------------------------------------------------------
(* Properties of the argument list (SpecArgs) *)

\* C6: the native argument list is -t; then -i and the identity file iff the
\* identity file is non-empty; then -p and the port iff the port is not "22";
\* then user@hostname, last; and nothing else.
C6_NativeArgs ==
    (lpc = "built" /\ ~zzhMode) =>
        LET a       == cmdArgs
            hasId   == host.identityFile # EmptyStr
            hasPort == host.port # <<"22">>
            portAt  == IF hasId THEN 4 ELSE 2
        IN  /\ Len(a) = 2 + (IF hasId THEN 2 ELSE 0) + (IF hasPort THEN 2 ELSE 0)
            /\ a[1] = <<"-t">>
            /\ a[Len(a)] = host.user \o <<"@">> \o host.hostname
            /\ hasId => a[2] = <<"-i">> /\ a[3] = host.identityFile
            /\ ~hasId => \A i \in 1..(Len(a) - 1) : a[i] # <<"-i">>
            /\ hasPort => a[portAt] = <<"-p">> /\ a[portAt + 1] = host.port
            /\ ~hasPort => \A i \in 1..(Len(a) - 1) : a[i] # <<"-p">>

\* C6's case: a default-port host with an identity file got -t and -i and no
\* port flag.
C6_Witness ==
    /\ lpc = "built"
    /\ ~zzhMode
    /\ host.port = <<"22">>
    /\ host.identityFile # EmptyStr
    /\ cmdArgs = << <<"-t">>, <<"-i">>, host.identityFile,
                    host.user \o <<"@">> \o host.hostname >>

-----------------------------------------------------------------------------
(* Properties of a launch (SpecLaunch) *)

IsChunk(x) == x.kind \in Streams
Last(q) == q[Len(q)]
Count(q, x) == Cardinality({ i \in 1..Len(q) : q[i] = x })
Returned == lpc = "done" /\ child = "exited"

\* C3: every signal the parent received while the child was running is in
\* flight to the child (in the channel or in the forwarder's hand) or was
\* delivered to it, and never twice; and a launcher that has returned after
\* the child's exit has written the end marker and closed the log.
C3_EachSignalDeliveredOnce ==
    /\ \A sig \in received :
          \/ Count(delivered, sig) = 1
          \/ /\ Count(delivered, sig) = 0
             /\ \/ Count(sigChan, sig) = 1
                \/ (fwd.pc = "signal" /\ fwd.sig = sig)
    /\ Returned => (Last(fs.data) = EndMarker /\ logFile = "closed")

\* C4: no child exists before the log file is created and the start marker
\* written (none at all when creation fails); every chunk of output in the
\* log follows the start marker; the end marker is written after the child
\* has exited and both pumps have finished, and nothing follows it; the file
\* is closed only after the end marker (or after a failed start); and the log
\* of a returned launch is the start marker, every chunk the child wrote, and
\* the end marker.
C4_LaunchOrder ==
    LET d == fs.data
    IN  /\ logFile = "nil" => child = "none"
        /\ result = <<Failed("createLog", 0)>> => (child = "none" /\ logFile = "nil")
        /\ child # "none" => (logFile # "nil" /\ Len(d) >= 1 /\ d[1] = StartMarker)
        /\ \A i \in 1..Len(d) : IsChunk(d[i]) => (i > 1 /\ d[1] = StartMarker)
        /\ \A i \in 1..Len(d) :
              d[i] = EndMarker =>
                 /\ i = Len(d)
                 /\ child = "exited"
                 /\ \A s \in Streams : pump[s].pc = "done"
        /\ logFile = "closed" => (child = "none" \/ Last(d) = EndMarker)
        /\ Returned =>
              /\ Len(d) = emitted + 2
              /\ d[1] = StartMarker
              /\ Last(d) = EndMarker
              /\ { d[i].n : i \in 2..(Len(d) - 1) } = 1..emitted
              /\ logFile = "closed"

\* C4's case: a launch that ran to its return with two chunks of output
\* between the markers.
C4_Witness ==
    /\ Returned
    /\ logFile = "closed"
    /\ Len(fs.data) = 4
    /\ IsChunk(fs.data[2])
    /\ IsChunk(fs.data[3])

\* C5: a launcher that returns after the child's exit returns a failure
\* carrying the child's status when the status is nonzero and no error when
\* it is zero, and the end marker is in the log by then.
C5_ExitStatusDecidesResult ==
    Returned =>
        /\ result = << IF childCode # 0 THEN Failed("exit", childCode)
                       ELSE NilError >>
        /\ Last(fs.data) = EndMarker

\* C5's case: the child got a forwarded signal and exited with status 7.
C5_Witness ==
    /\ Returned
    /\ delivered # << >>
    /\ childCode = 7
    /\ result = <<Failed("exit", 7)>>

\* C8 as stated: after a launch on an existing file the file starts with its
\* earlier bytes, followed by the start marker, the output and the end marker.
C8_AppendKeepsEarlierBytes ==
    (Returned /\ fileBefore.exists) =>
        LET old == fileBefore.data
            d   == fs.data
        IN  /\ Len(d) >= Len(old) + 2
            /\ SubSeq(d, 1, Len(old)) = old
            /\ d[Len(old) + 1] = StartMarker
            /\ Last(d) = EndMarker

\* C8 amended: creating the log truncates it.  Once the log is created the
\* file holds nothing it held before the launch, only this launch's markers
\* and output; a failed creation leaves the file as it was.
C8_CreateTruncates ==
    /\ logFile # "nil" =>
          /\ fs.exists
          /\ \A i \in 1..Len(fs.data) :
                fs.data[i] # OldBytes
                /\ (IsChunk(fs.data[i]) \/ fs.data[i] \in {StartMarker, EndMarker})
    /\ result = <<Failed("createLog", 0)>> => fs = fileBefore

\* C8's case: a launch whose caller-supplied log path named an existing file
\* has returned.
C8_Witness ==
    /\ Returned
    /\ zzhLogFile # EmptyStr
    /\ fileBefore = FileOf(<<OldBytes>>)
    /\ Len(fs.data) >= 3

\* who is inside a write to the log file, and to an OS stream
LogWriters ==
    { s \in Streams : pump[s].pc = "teeLog" }
    \cup (IF lpc \in {"startMarker", "endMarker"} THEN {"launcher"} ELSE {})
StdWriters(t) == { s \in Streams : pump[s].pc = "teeStd" /\ StdTarget(s) = t }

\* C9 as stated: the log file and each OS stream has at most one writer at a
\* time.
C9_OneWriterEach ==
    /\ Cardinality(LogWriters) <= 1
    /\ \A t \in StdNames : Cardinality(StdWriters(t)) <= 1

\* C9 amended: each OS stream has at most one writer at a time and receives
\* only its own pump's chunks, and a marker write never overlaps a pump's
\* write to the log; the log file itself is written by both pumps.
C9_StdStreamsSingleWriter ==
    /\ \A t \in StdNames :
          /\ Cardinality(StdWriters(t)) <= 1
          /\ \A i \in 1..Len(stdStreams[t]) :
                stdStreams[t][i].kind = (IF t = "stdout" THEN "out" ELSE "err")
    /\ "launcher" \in LogWriters => LogWriters = {"launcher"}

\* C9's case: the stdout pump and the stderr pump are both inside their write
\* to the log file.
C9_Witness ==
    /\ pump["out"].pc = "teeLog"
    /\ pump["err"].pc = "teeLog"
    /\ LogWriters = Streams

\* C10: notification is stopped before the channel is closed, and the
\* forwarder makes no signal call on the child once cmd.Wait has returned.
C10_ForwardingEndsWithChild ==
    /\ chanClosed => ~registered
    /\ ~lateSignalCall

=============================================================================
